---- MODULE Spec2Model ----
(***************************************************************************)
(* Model of amaranth/vendor/_siliconblue.py (SiliconBluePlatform):         *)
(*   - create_missing_domain: the clock source, the power-on-reset timer   *)
(*     of the "por" domain and the reset request of the "sync" domain;     *)
(*   - get_io_buffer / _get_io_buffer_single: lowering of I/O buffers to   *)
(*     SB_IO / SB_GB_IO / SB_LUT4 / SB_DFF instances.                      *)
(***************************************************************************)
EXTENDS Integers, Naturals, Sequences, FiniteSets, TLC

VARIABLES
    default_clk,    \* platform attribute: "SB_HFOSC", "SB_LFOSC", "clk" (a Clock resource), "None"
    hfosc_div,      \* platform attribute hfosc_div: [kind, val]
    frequency,      \* declared frequency (Hz) of the external Clock resource
    default_rst,    \* TRUE iff a default reset resource is declared
    phase,          \* "init", "built" (module returned), "error" (ValueError), "none" (None returned)
    emitted,        \* what create_missing_domain has added to the module it returns
    delay,          \* the local variable delay
    timer,          \* register timer of the "por" domain
    ready,          \* register ready of the "por" domain
    rst_i,          \* value of the external reset input
    rst_req,        \* ResetSignal("sync") or, with a default reset, the ResetSynchronizer input
    cycle,          \* rising edges of clk_i since configuration (saturates at MaxCycle)
    edge,           \* parity of the number of rising edges of clk_i since configuration
    buffer,         \* the io.Buffer / io.FFBuffer / io.DDRBuffer handed to get_io_buffer
    result          \* what get_io_buffer returned or raised

vars == <<default_clk, hfosc_div, frequency, default_rst, phase, emitted, delay,
          timer, ready, rst_i, rst_req, cycle, edge, buffer, result>>

porVars == <<default_clk, hfosc_div, frequency, default_rst, phase, emitted, delay,
             timer, ready, rst_i, rst_req, cycle, edge>>

ioVars == <<buffer, result>>

(***************************************************************************)
(* Bounds                                                                  *)
(***************************************************************************)
\* cycles counted past the delay before the cycle counter saturates
CycleSlack == 3
\* integer divider exponents tried above the largest valid one
DivSlack == 2
\* largest port width
MaxWidth == 4

(***************************************************************************)
(* Program constants                                                       *)
(***************************************************************************)
HfoscMHz == 48
LfoscKHz == 10
OscStableUs == 100
BramStableUs == 15
MaxHfoscDiv == 3

\* declared frequencies (Hz) of the external clock resource
ExtFrequencies == {50000, 100000, 170000, 300000, 500000, 560000, 700000, 1000000, 12000000}

(***************************************************************************)
(* Integer helpers                                                         *)
(***************************************************************************)
RECURSIVE Pow2(_)
Pow2(n) == IF n = 0 THEN 1 ELSE 2 * Pow2(n - 1)

\* number of bits of the binary representation of n (0 for n = 0)
RECURSIVE BitLength(_)
BitLength(n) == IF n = 0 THEN 0 ELSE 1 + BitLength(n \div 2)

Bit(x, b) == (x \div Pow2(b)) % 2

(***************************************************************************)
(* create_missing_domain                                                   *)
(***************************************************************************)
Missing == [kind |-> "missing", val |-> 0]

\* values the attribute hfosc_div may hold: absent, an int, a bool, a float, a str
HfoscDivValues ==
    {Missing}
    \cup {[kind |-> "int", val |-> v] : v \in (0 - 2)..(MaxHfoscDiv + DivSlack)}
    \cup {[kind |-> "bool", val |-> v] : v \in {0, 1}}
    \cup {[kind |-> "float", val |-> v] : v \in {1, 2}}
    \cup {[kind |-> "str", val |-> 2]}

\* isinstance(self.hfosc_div, int): bool is a subclass of int
IsInstanceInt(h) == h.kind \in {"int", "bool"}

HfoscDivRejected_wide(h) ==
    \/ h.kind = "missing"
    \/ ~IsInstanceInt(h) \/ h.val < 0 \/ h.val > MaxHfoscDiv + 1

\* the two raise ValueError conditions on hfosc_div
HfoscDivRejected(h) ==
    \/ h.kind = "missing"
    \/ ~IsInstanceInt(h) \/ h.val < 0 \/ h.val > MaxHfoscDiv

\* default_clk_constraint / default_clk_frequency, in Hz
DefaultClkFrequency(clk, div, freq) ==
    CASE clk = "SB_HFOSC" -> (HfoscMHz * 1000000) \div Pow2(div.val)
      [] clk = "SB_LFOSC" -> LfoscKHz * 1000
      [] OTHER -> freq

IntMicros_ceil(us, f) ==
    us * (f \div 1000000) + (us * (f % 1000000) + 999999) \div 1000000

\* int(us * 1e-6 * f): truncation of a non-negative product, with f split into
\* whole MHz and the remaining Hz to keep the product within 32 bits
IntMicros(us, f) == us * (f \div 1000000) + (us * (f % 1000000)) \div 1000000

\* the delay chosen for the clock source
Delay(clk, div, freq) ==
    CASE clk = "SB_HFOSC" -> IntMicros(OscStableUs, DefaultClkFrequency(clk, div, freq))
      [] clk = "SB_LFOSC" -> IntMicros(OscStableUs, DefaultClkFrequency(clk, div, freq))
      [] OTHER -> IntMicros(BramStableUs, DefaultClkFrequency(clk, div, freq))

\* width of Signal(range(delay)): the bits needed for the values 0 .. delay - 1
TimerWidth(d) == IF d = 0 THEN 0 ELSE BitLength(d - 1)

\* the clock source added to the module
ClockSource(clk) ==
    CASE clk = "SB_HFOSC" -> {"SB_HFOSC"}
      [] clk = "SB_LFOSC" -> {"SB_LFOSC"}
      [] OTHER -> {"clk_buf"}

ResetRequest_and(rdy, rst, hasRst) ==
    IF hasRst
    THEN (IF rdy = 0 /\ rst = 1 THEN 1 ELSE 0)
    ELSE 1 - rdy

\* ~ready | rst_i into the ResetSynchronizer, or ~ready onto ResetSignal("sync")
ResetRequest(rdy, rst, hasRst) ==
    IF hasRst
    THEN (IF rdy = 0 \/ rst = 1 THEN 1 ELSE 0)
    ELSE 1 - rdy

MaxCycle == delay + CycleSlack

PorInit ==
    /\ default_clk \in {"SB_HFOSC", "SB_LFOSC", "clk", "None"}
    /\ hfosc_div \in (IF default_clk = "SB_HFOSC" THEN HfoscDivValues ELSE {Missing})
    /\ frequency \in (IF default_clk = "clk" THEN ExtFrequencies ELSE {0})
    /\ default_rst \in (IF default_clk = "None" THEN {FALSE} ELSE BOOLEAN)
    /\ phase = "init"
    /\ emitted = {}
    /\ delay = 0
    /\ timer = 0
    /\ ready = 0
    /\ rst_i = 0
    /\ rst_req = 0
    /\ cycle = 0
    /\ edge = 0

IoIdle ==
    /\ buffer = [kind |-> "None"]
    /\ result = [status |-> "none"]

CreateMissingDomain(name) ==
    /\ phase = "init"
    /\ IF name = "sync" /\ default_clk # "None"
       THEN IF default_clk = "SB_HFOSC" /\ HfoscDivRejected(hfosc_div)
            THEN /\ phase' = "error"
                 /\ UNCHANGED <<emitted, delay, rst_req>>
            ELSE /\ phase' = "built"
                 /\ delay' = Delay(default_clk, hfosc_div, frequency)
                 /\ emitted' = ClockSource(default_clk)
                               \cup (IF default_rst THEN {"rst_buf", "reset_sync"} ELSE {})
                               \cup {"por", "timer", "ready", "sync"}
                 /\ rst_req' = ResetRequest(ready, rst_i, default_rst)
       ELSE /\ phase' = "none"
            /\ UNCHANGED <<emitted, delay, rst_req>>
    /\ UNCHANGED <<default_clk, hfosc_div, frequency, default_rst, timer, ready, rst_i, cycle, edge>>
    /\ UNCHANGED ioVars

TimerDone_early(t, d) == t + 1 >= d

\* m.If(timer == delay)
TimerDone(t, d) == t = d

PorTick_free ==
    /\ phase = "built"
    /\ IF TimerDone(timer, delay)
       THEN /\ ready' = 1
            /\ timer' = (timer + 1) % Pow2(TimerWidth(delay))
       ELSE /\ timer' = (timer + 1) % Pow2(TimerWidth(delay))
            /\ ready' = ready
    /\ cycle' = IF cycle < MaxCycle THEN cycle + 1 ELSE cycle
    /\ edge' = 1 - edge
    /\ rst_req' = ResetRequest(ready', rst_i, default_rst)
    /\ UNCHANGED <<default_clk, hfosc_div, frequency, default_rst, phase, emitted, delay, rst_i>>
    /\ UNCHANGED ioVars

\* one rising edge of clk_i in the "por" domain
PorTick ==
    /\ phase = "built"
    /\ IF TimerDone(timer, delay)
       THEN /\ ready' = 1
            /\ timer' = timer
       ELSE /\ timer' = (timer + 1) % Pow2(TimerWidth(delay))
            /\ ready' = ready
    /\ cycle' = IF cycle < MaxCycle THEN cycle + 1 ELSE cycle
    /\ edge' = 1 - edge
    /\ rst_req' = ResetRequest(ready', rst_i, default_rst)
    /\ UNCHANGED <<default_clk, hfosc_div, frequency, default_rst, phase, emitted, delay, rst_i>>
    /\ UNCHANGED ioVars

\* the external reset input changes
RstChange ==
    /\ phase = "built"
    /\ default_rst
    /\ rst_i' = 1 - rst_i
    /\ rst_req' = ResetRequest(ready, rst_i', default_rst)
    /\ UNCHANGED <<default_clk, hfosc_div, frequency, default_rst, phase, emitted, delay,
                   timer, ready, cycle, edge>>
    /\ UNCHANGED ioVars

Init == PorInit /\ IoIdle

Next ==
    \/ \E name \in {"sync", "pix"} : CreateMissingDomain(name)
    \/ PorTick
    \/ RstChange

Spec == Init /\ [][Next]_vars

\* the oscillator keeps running: clock edges keep coming
FairSpec == Init /\ [][Next]_vars /\ WF_vars(PorTick) /\ WF_vars(CreateMissingDomain("sync"))

(***************************************************************************)
(* get_io_buffer and _get_io_buffer_single                                 *)
(***************************************************************************)
BufferKinds == {"Buffer", "FFBuffer", "DDRBuffer"}
Directions == {"Input", "Output", "Bidir"}

\* sequences of w flags, flag of bit b at index b + 1
Flags(w) == [1..w -> BOOLEAN]

\* a port: its kind, its width, its invert flags and the GLOBAL attribute of each pin
Ports ==
    UNION {[kind : {"SingleEnded", "Differential", "Other"}, width : {w},
            invert : Flags(w), glob : Flags(w)] : w \in 0..MaxWidth}

Buffers == [kind : BufferKinds \cup {"Other"}, direction : Directions, port : Ports]

\* io.SingleEndedPort(buffer.port.p / .n, invert=buffer.port.invert, ...)
SinglePort(port, leg) == [leg |-> leg, width |-> port.width, invert |-> port.invert, glob |-> port.glob]

\* ~port: the same pins with every invert flag complemented
PortInvert(port) == [port EXCEPT !.invert = [b \in 1..port.width |-> ~port.invert[b]]]

\* sum(int(inv) << bit for bit, inv in enumerate(port.invert))
RECURSIVE MaskUpTo(_, _)
MaskUpTo(invert, n) ==
    IF n = 0 THEN 0
    ELSE MaskUpTo(invert, n - 1) + (IF invert[n] THEN Pow2(n - 1) ELSE 0)

Mask(invert) == MaskUpTo(invert, Len(invert))

get_inv_swapped(invert_lut, port) ==
    IF invert_lut
    THEN [kind |-> "lut", init |-> [b \in 1..port.width |-> IF port.invert[b] THEN 2 ELSE 1],
          op |-> "none", mask |-> 0]
    ELSE LET mask == Mask(port.invert)
         IN  [kind |-> "comb", init |-> <<>>,
              op |-> IF mask = 0 THEN "not"
                     ELSE IF mask = Pow2(port.width) - 1 THEN "eq" ELSE "xor",
              mask |-> mask]

\* get_inv(y, a): one SB_LUT4 per bit (LUT_INIT 0b01 inverts, 0b10 passes), or one
\* combinational assignment y = a, y = ~a or y = a ^ mask
get_inv(invert_lut, port) ==
    IF invert_lut
    THEN [kind |-> "lut", init |-> [b \in 1..port.width |-> IF port.invert[b] THEN 1 ELSE 2],
          op |-> "none", mask |-> 0]
    ELSE LET mask == Mask(port.invert)
         IN  [kind |-> "comb", init |-> <<>>,
              op |-> IF mask = 0 THEN "eq"
                     ELSE IF mask = Pow2(port.width) - 1 THEN "not" ELSE "xor",
              mask |-> mask]

\* the get_inv calls made, by the name of the net on the pin side
InvRoles(buf) ==
    IF buf.kind = "DDRBuffer"
    THEN (IF buf.direction # "Output" THEN {"i0", "i1"} ELSE {})
         \cup (IF buf.direction # "Input" THEN {"o0", "o1"} ELSE {})
    ELSE (IF buf.direction # "Output" THEN {"i"} ELSE {})
         \cup (IF buf.direction # "Input" THEN {"o"} ELSE {})

\* the get_dff calls made: <<domain, q, d>>, one SB_DFF per bit each
DffCalls(buf) ==
    IF buf.kind = "DDRBuffer"
    THEN (IF buf.direction # "Output"
          THEN {<<"i_domain", "buffer.i[0]", "i0_neg">>, <<"i_domain", "buffer.i[1]", "i1_neg">>}
          ELSE {})
         \cup (IF buf.direction # "Input"
               THEN {<<"o_domain", "o1_ff", "buffer.o[1]">>}
               ELSE {})
    ELSE {}

\* is_global_input of one bit
IsGlobalInput(buf, port, b) == IF buf.direction = "Output" THEN FALSE ELSE port.glob[b]

BadGlobalBits_invert_only(buf, port) ==
    {b \in 1..port.width : IsGlobalInput(buf, port, b) /\ port.invert[b]}

\* the bits at which the loop raises ValueError
BadGlobalBits(buf, port) ==
    {b \in 1..port.width :
        IsGlobalInput(buf, port, b) /\ (port.invert[b] \/ buf.kind # "Buffer")}

IType_registered(buf) ==
    IF buf.kind = "Buffer" THEN 1 ELSE 0

\* i_type: PIN_INPUT (0b01) or PIN_INPUT_REGISTERED (0b00)
IType(buf) ==
    IF buf.direction = "Output" THEN 1
    ELSE IF buf.kind = "Buffer" THEN 1
    ELSE 0

\* o_type: PIN_NO_OUTPUT, PIN_OUTPUT_TRISTATE, PIN_OUTPUT_REGISTERED_ENABLE_REGISTERED,
\* PIN_OUTPUT_DDR_ENABLE_REGISTERED
OType(buf) ==
    IF buf.direction = "Input" THEN 0
    ELSE IF buf.kind = "Buffer" THEN 10
    ELSE IF buf.kind = "FFBuffer" THEN 13
    ELSE 12

\* bitwise OR of two values of w bits
RECURSIVE BitOr(_, _, _)
BitOr(x, y, w) ==
    IF w = 0 THEN 0
    ELSE (IF x % 2 = 1 \/ y % 2 = 1 THEN 1 ELSE 0) + 2 * BitOr(x \div 2, y \div 2, w - 1)

\* C((o_type << 2) | i_type, 6)
PinType(o_type, i_type) == BitOr(o_type * 4, i_type, 6) % 64

\* the connections of the instance of one bit, as <<port name, net>>
IoConns(buf, port, b) ==
    {<<"PACKAGE_PIN", "io">>}
    \cup (IF buf.direction = "Output" THEN {}
          ELSE IF buf.kind = "Buffer"
               THEN (IF IsGlobalInput(buf, port, b)
                     THEN {<<"GLOBAL_BUFFER_OUTPUT", "i">>} ELSE {<<"D_IN_0", "i">>})
          ELSE IF buf.kind = "FFBuffer"
               THEN {<<"INPUT_CLK", "i_domain">>, <<"D_IN_0", "i">>}
          ELSE {<<"INPUT_CLK", "i_domain">>, <<"D_IN_0", "i0">>, <<"D_IN_1", "i1">>})
    \cup (IF buf.direction = "Input" THEN {}
          ELSE IF buf.kind = "Buffer" THEN {<<"D_OUT_0", "o">>}
          ELSE IF buf.kind = "FFBuffer"
               THEN {<<"OUTPUT_CLK", "o_domain">>, <<"D_OUT_0", "o">>}
          ELSE {<<"OUTPUT_CLK", "o_domain">>, <<"D_OUT_0", "o0">>, <<"D_OUT_1", "o1">>})
    \cup (IF buf.direction # "Input" THEN {<<"OUTPUT_ENABLE", "buffer.oe">>} ELSE {})

\* the SB_IO / SB_GB_IO instance buf{bit}
IoInstance(buf, port, b) ==
    [type |-> IF IsGlobalInput(buf, port, b) THEN "SB_GB_IO" ELSE "SB_IO",
     leg |-> port.leg,
     bit |-> b - 1,
     PIN_TYPE |-> PinType(OType(buf), IType(buf)),
     conns |-> IoConns(buf, port, b)]

\* the RequirePosedge submodules added by the loop
PosedgeDomains(buf, port) ==
    IF buf.kind = "Buffer" \/ port.width = 0 THEN {}
    ELSE (IF buf.direction # "Output" THEN {"i_domain"} ELSE {})
         \cup (IF buf.direction # "Input" THEN {"o_domain"} ELSE {})

Min(S) == CHOOSE x \in S : \A y \in S : x <= y

\* _get_io_buffer_single(buffer, port, invert_lut=...): the module, or the ValueError
\* raised at the first offending bit (the local module is then dropped)
get_io_buffer_single(buf, port, invert_lut) ==
    IF BadGlobalBits(buf, port) # {}
    THEN LET b == Min(BadGlobalBits(buf, port))
         IN  [status |-> "ValueError",
              msg |-> IF port.invert[b] THEN "iCE40 global input buffer doesn't support inversion"
                      ELSE "iCE40 global input buffer cannot be registered",
              bit |-> b - 1]
    ELSE [status |-> "ok",
          kind |-> "single",
          leg |-> port.leg,
          invert |-> port.invert,
          inv |-> [r \in InvRoles(buf) |-> get_inv(invert_lut, port)],
          dff |-> DffCalls(buf),
          posedge |-> PosedgeDomains(buf, port),
          buf |-> [b \in 1..port.width |-> IoInstance(buf, port, b)]]

LocalInvertLut_registered(buf) ==
    IF buf.direction = "Output"
    THEN [bound |-> TRUE, val |-> buf.kind # "Buffer"]
    ELSE [bound |-> FALSE, val |-> FALSE]

\* the local variable invert_lut of get_io_buffer, assigned on the Output path only
LocalInvertLut(buf) ==
    IF buf.direction = "Output"
    THEN [bound |-> TRUE, val |-> buf.kind = "Buffer"]
    ELSE [bound |-> FALSE, val |-> FALSE]

get_io_buffer_bidir_lowered(buf) ==
    LET port_p == SinglePort(buf.port, "p")
        port_n == PortInvert(SinglePort(buf.port, "n"))
        lut == LocalInvertLut(buf)
    IN  IF buf.kind \notin BufferKinds
        THEN [status |-> "TypeError", msg |-> "Unknown IO buffer type"]
        ELSE IF buf.port.kind = "Differential"
        THEN IF buf.direction \in {"Output", "Bidir"}
             THEN LET p == get_io_buffer_single(buf, port_p, lut.val)
                      n == get_io_buffer_single(buf, port_n, lut.val)
                  IN  IF p.status # "ok" THEN p
                      ELSE IF n.status # "ok" THEN n
                      ELSE [status |-> "ok", kind |-> "diff", p |-> p, n |-> n]
             ELSE IF ~lut.bound
                  THEN [status |-> "UnboundLocalError", msg |-> "invert_lut"]
                  ELSE get_io_buffer_single(buf, port_p, lut.val)
        ELSE IF buf.port.kind = "SingleEnded"
        THEN get_io_buffer_single(buf, SinglePort(buf.port, "io"), FALSE)
        ELSE [status |-> "TypeError", msg |-> "Unknown port type"]

get_io_buffer_same_legs(buf) ==
    LET port_p == SinglePort(buf.port, "p")
        port_n == SinglePort(buf.port, "n")
        lut == LocalInvertLut(buf)
    IN  IF buf.kind \notin BufferKinds
        THEN [status |-> "TypeError", msg |-> "Unknown IO buffer type"]
        ELSE IF buf.port.kind = "Differential"
        THEN IF buf.direction = "Bidir"
             THEN [status |-> "TypeError",
                   msg |-> "iCE40 does not support bidirectional differential ports"]
             ELSE IF buf.direction = "Output"
             THEN LET p == get_io_buffer_single(buf, port_p, lut.val)
                      n == get_io_buffer_single(buf, port_n, lut.val)
                  IN  IF p.status # "ok" THEN p
                      ELSE IF n.status # "ok" THEN n
                      ELSE [status |-> "ok", kind |-> "diff", p |-> p, n |-> n]
             ELSE IF ~lut.bound
                  THEN [status |-> "UnboundLocalError", msg |-> "invert_lut"]
                  ELSE get_io_buffer_single(buf, port_p, lut.val)
        ELSE IF buf.port.kind = "SingleEnded"
        THEN get_io_buffer_single(buf, SinglePort(buf.port, "io"), FALSE)
        ELSE [status |-> "TypeError", msg |-> "Unknown port type"]

\* get_io_buffer(buffer): the module returned or the exception raised
get_io_buffer(buf) ==
    LET port_p == SinglePort(buf.port, "p")
        port_n == PortInvert(SinglePort(buf.port, "n"))
        lut == LocalInvertLut(buf)
    IN  IF buf.kind \notin BufferKinds
        THEN [status |-> "TypeError", msg |-> "Unknown IO buffer type"]
        ELSE IF buf.port.kind = "Differential"
        THEN IF buf.direction = "Bidir"
             THEN [status |-> "TypeError",
                   msg |-> "iCE40 does not support bidirectional differential ports"]
             ELSE IF buf.direction = "Output"
             THEN LET p == get_io_buffer_single(buf, port_p, lut.val)
                      n == get_io_buffer_single(buf, port_n, lut.val)
                  IN  IF p.status # "ok" THEN p
                      ELSE IF n.status # "ok" THEN n
                      ELSE [status |-> "ok", kind |-> "diff", p |-> p, n |-> n]
             ELSE IF ~lut.bound
                  THEN [status |-> "UnboundLocalError", msg |-> "invert_lut"]
                  ELSE get_io_buffer_single(buf, port_p, lut.val)
        ELSE IF buf.port.kind = "SingleEnded"
        THEN get_io_buffer_single(buf, SinglePort(buf.port, "io"), FALSE)
        ELSE [status |-> "TypeError", msg |-> "Unknown port type"]

\* SB_LUT4 with I1 = I2 = I3 = 0: the output is bit I0 of LUT_INIT
LutOut(init, i0) == Bit(init, i0)

\* bitwise XOR of two values of w bits
RECURSIVE BitXor(_, _, _)
BitXor(x, y, w) ==
    IF w = 0 THEN 0
    ELSE ((x + y) % 2) + 2 * BitXor(x \div 2, y \div 2, w - 1)

\* the per-bit LUT outputs of a get_inv, assembled into a value of n bits
RECURSIVE LutBus(_, _, _)
LutBus(init, a, n) ==
    IF n = 0 THEN 0
    ELSE LutBus(init, a, n - 1) + LutOut(init[n], Bit(a, n - 1)) * Pow2(n - 1)

\* the value on y of get_inv(y, a) for a value a of w bits
ApplyInv(inv, a, w) ==
    IF inv.kind = "lut" THEN LutBus(inv.init, a, w)
    ELSE IF inv.op = "eq" THEN a
    ELSE IF inv.op = "not" THEN (Pow2(w) - 1) - a
    ELSE BitXor(a, inv.mask, w) % Pow2(w)

\* no domain requested yet: the platform as constructed, without a default clock
PorIdle ==
    /\ default_clk = "None"
    /\ hfosc_div = Missing
    /\ frequency = 0
    /\ default_rst = FALSE
    /\ phase = "init"
    /\ emitted = {}
    /\ delay = 0
    /\ timer = 0
    /\ ready = 0
    /\ rst_i = 0
    /\ rst_req = 0
    /\ cycle = 0
    /\ edge = 0

IoInit ==
    /\ buffer \in Buffers
    /\ result = [status |-> "none"]

\* one call of get_io_buffer on the requested buffer
GetIoBuffer ==
    /\ result.status = "none"
    /\ result' = get_io_buffer(buffer)
    /\ UNCHANGED buffer
    /\ UNCHANGED porVars

IoStart == PorIdle /\ IoInit

IoNext == GetIoBuffer

IoSpec == IoStart /\ [][IoNext]_vars

(***************************************************************************)
(* Properties of create_missing_domain                                     *)
(***************************************************************************)
Built == phase = "built"

\* C1 as stated: with the fast oscillator, ready = 0 in every cycle n < D and
\* ready = 1 in every cycle n >= D.
C1_ReadyFromCycleD ==
    (Built /\ default_clk = "SB_HFOSC")
        => ((cycle < delay => ready = 0) /\ (cycle >= delay => ready = 1))

\* C1 amended: with the fast oscillator, ready = 0 in every cycle n <= D and
\* ready = 1 in every cycle n >= D + 1 (the timer reaches D in cycle D and the
\* latch is set by the edge after that).
C1_ReadyAfterCycleD ==
    (Built /\ default_clk = "SB_HFOSC")
        => ((cycle <= delay => ready = 0) /\ (cycle >= delay + 1 => ready = 1))

C1_Witness ==
    Built /\ default_clk = "SB_HFOSC" /\ hfosc_div.val = 0
          /\ cycle = delay + 1 /\ timer = delay /\ ready = 1

\* C2: for every accepted clock source the timer eventually reaches D, ready
\* eventually becomes 1 and, with no external reset asserted, the reset request
\* of the "sync" domain is then deasserted.
C2_ResetEventuallyReleased ==
    [](Built => <>(timer = delay /\ ready = 1 /\ (rst_i = 0 => rst_req = 0)))

\* C3: the timer stays within 0 .. D and every clock edge either adds exactly 1
\* to it (while it is below D) or keeps it; it never decreases or wraps.
C3_SaturatingTimer ==
    /\ [](Built => timer \in 0..delay)
    /\ [][Built => (timer' = timer \/ (timer < delay /\ timer' = timer + 1))]_vars

\* C4: once ready is 1 it is 1 in every later cycle, and ready is never 1 while
\* the timer is below D.
C4_MonotonicReady ==
    /\ [][ready = 1 => ready' = 1]_vars
    /\ [](ready = 1 => ~(timer < delay))

C4_Witness == Built /\ ready = 1 /\ cycle = MaxCycle /\ delay > 0

\* C5: while ready = 0 the reset request of "sync" is asserted, hence during the
\* first D cycles; without a default reset it equals NOT ready, with one it
\* equals (NOT ready) OR externalReset.
C5_ResetGating ==
    Built =>
        /\ (ready = 0 => rst_req = 1)
        /\ (cycle < delay => rst_req = 1)
        /\ (~default_rst => rst_req = 1 - ready)
        /\ (default_rst => (rst_req = 1 <=> (ready = 0 \/ rst_i = 1)))

C5_Witness == Built /\ default_rst /\ ready = 1 /\ rst_i = 1 /\ rst_req = 1

\* an integer divider exponent within 0 .. 3
ValidDivExponent(h) == h.kind \in {"int", "bool"} /\ h.val \in {0, 1, 2, 3}

\* C6: with the fast oscillator, create_missing_domain("sync") fails exactly when
\* the divider exponent is missing, not an integer or outside 0 .. 3, and a
\* failed call has emitted nothing and returned no module.
C6_InvalidDivRejected ==
    /\ (default_clk = "SB_HFOSC" /\ phase \in {"built", "error"})
           => (phase = "error" <=> ~ValidDivExponent(hfosc_div))
    /\ (phase = "error" => (emitted = {} /\ default_clk = "SB_HFOSC"))
    /\ (phase = "built" => emitted # {})

C6_Witness ==
    phase = "error" /\ hfosc_div.kind = "int" /\ hfosc_div.val = MaxHfoscDiv + 1

(***************************************************************************)
(* Properties of get_io_buffer                                             *)
(***************************************************************************)
Lowered == result.status # "none"
Width == buffer.port.width
DataValues == 0..(Pow2(Width) - 1)
XorFlag(bit, flag) == IF flag THEN 1 - bit ELSE bit
IoPrimitives == {"SB_IO", "SB_GB_IO"}

\* the type code table: i_type, o_type and the packed codes of the nine pairs
TableIType(dir, kind) == IF dir = "Output" \/ kind = "Buffer" THEN 1 ELSE 0
TableOType(dir, kind) ==
    IF dir = "Input" THEN 0
    ELSE IF kind = "Buffer" THEN 10 ELSE IF kind = "FFBuffer" THEN 13 ELSE 12
TablePinType ==
    [dir \in Directions |->
        CASE dir = "Input"  -> [Buffer |-> 1,  FFBuffer |-> 0,  DDRBuffer |-> 0]
          [] dir = "Output" -> [Buffer |-> 41, FFBuffer |-> 53, DDRBuffer |-> 49]
          [] dir = "Bidir"  -> [Buffer |-> 41, FFBuffer |-> 52, DDRBuffer |-> 48]]

\* C7: on every bit of a successfully lowered single-ended buffer, PIN_TYPE is
\* (o_type << 2) | i_type as the table gives it for the direction and the mode.
C7_PinTypeTable ==
    (result.status = "ok" /\ buffer.port.kind = "SingleEnded") =>
        \A b \in 1..Width :
            /\ result.buf[b].PIN_TYPE = TablePinType[buffer.direction][buffer.kind]
            /\ result.buf[b].PIN_TYPE
                 = TableOType(buffer.direction, buffer.kind) * 4
                   + TableIType(buffer.direction, buffer.kind)
            /\ result.buf[b].PIN_TYPE \in 0..63

C7_Witness ==
    /\ result.status = "ok" /\ buffer.port.kind = "SingleEnded"
    /\ buffer.direction = "Output" /\ buffer.kind = "FFBuffer" /\ Width = 2
    /\ result.buf[2].PIN_TYPE = 53

\* C8: a differential Input buffer lowers successfully, to exactly one I/O
\* primitive per bit, all on the positive leg and none on the negative leg.
C8_DiffInputPositiveLeg ==
    (Lowered /\ buffer.kind \in BufferKinds /\ buffer.port.kind = "Differential"
             /\ buffer.direction = "Input") =>
        /\ result.status = "ok"
        /\ result.kind = "single"
        /\ Len(result.buf) = Width
        /\ \A b \in 1..Width :
               result.buf[b].type \in IoPrimitives /\ result.buf[b].leg = "p"

OneInstancePerBit(m, leg) ==
    /\ m.status = "ok" /\ m.kind = "single" /\ m.leg = leg
    /\ Len(m.buf) = Width
    /\ \A b \in 1..Width :
           m.buf[b].type \in IoPrimitives /\ m.buf[b].leg = leg /\ m.buf[b].bit = b - 1

\* C9: a differential Output buffer lowers to one single-ended lowering per leg,
\* each with one I/O primitive per bit; the positive leg uses the invert flags
\* unchanged, the negative leg their complement, so every bit driven on the
\* negative pin is the complement of the bit driven on the positive pin.
C9_DiffOutputComplementary ==
    (Lowered /\ buffer.kind \in BufferKinds /\ buffer.port.kind = "Differential"
             /\ buffer.direction = "Output") =>
        /\ result.status = "ok"
        /\ result.kind = "diff"
        /\ OneInstancePerBit(result.p, "p")
        /\ OneInstancePerBit(result.n, "n")
        /\ result.p.invert = buffer.port.invert
        /\ result.n.invert = [b \in 1..Width |-> ~buffer.port.invert[b]]
        /\ DOMAIN result.p.inv = DOMAIN result.n.inv
        /\ DOMAIN result.p.inv # {}
        /\ \A r \in DOMAIN result.p.inv : \A data \in DataValues : \A b \in 0..(Width - 1) :
               LET pos == Bit(ApplyInv(result.p.inv[r], data, Width), b)
                   neg == Bit(ApplyInv(result.n.inv[r], data, Width), b)
               IN  /\ pos = XorFlag(Bit(data, b), buffer.port.invert[b + 1])
                   /\ neg = 1 - pos

C9_Witness ==
    /\ result.status = "ok" /\ buffer.port.kind = "Differential"
    /\ buffer.direction = "Output" /\ buffer.kind = "Buffer"
    /\ buffer.port.invert = <<TRUE, FALSE>>
    /\ ApplyInv(result.p.inv["o"], 1, 2) = 0
    /\ ApplyInv(result.n.inv["o"], 1, 2) = 3

\* C10: a single-ended Combinational buffer emits no lookup table; the pin side
\* of every bit is the fabric side XOR invert[bit]; the net is passed through
\* when no bit is inverted, inverted as a whole when all are, XORed with the mask
\* sum(invert[b] << b) otherwise (0b1010 for invert = [F, T, F, T]); all-true and
\* all-false invert vectors drive complementary values for the same data.
C10_NetInversion ==
    (result.status = "ok" /\ buffer.port.kind = "SingleEnded" /\ buffer.kind = "Buffer") =>
        LET invert == buffer.port.invert
            none == \A b \in 1..Width : ~invert[b]
            all == \A b \in 1..Width : invert[b]
            flipped == get_io_buffer([buffer EXCEPT !.port.invert = [b \in 1..Width |-> ~invert[b]]])
        IN  /\ DOMAIN result.inv # {}
            /\ \A r \in DOMAIN result.inv :
                LET inv == result.inv[r]
                IN  /\ inv.kind = "comb"
                    /\ inv.mask \in DataValues
                    /\ \A b \in 0..(Width - 1) : Bit(inv.mask, b) = XorFlag(0, invert[b + 1])
                    /\ inv.op = (IF none THEN "eq" ELSE IF all THEN "not" ELSE "xor")
                    /\ (invert = <<FALSE, TRUE, FALSE, TRUE>> => (inv.op = "xor" /\ inv.mask = 10))
                    /\ \A data \in DataValues :
                        /\ ApplyInv(inv, data, Width) = BitXor(data, inv.mask, Width)
                        /\ \A b \in 0..(Width - 1) :
                               Bit(ApplyInv(inv, data, Width), b)
                                   = XorFlag(Bit(data, b), invert[b + 1])
                        /\ (flipped.status = "ok" =>
                               ApplyInv(inv, data, Width) + ApplyInv(flipped.inv[r], data, Width)
                                   = Pow2(Width) - 1)

C10_Witness ==
    /\ result.status = "ok" /\ buffer.port.kind = "SingleEnded" /\ buffer.kind = "Buffer"
    /\ buffer.direction = "Output"
    /\ buffer.port.invert = <<FALSE, TRUE, FALSE, TRUE>>
    /\ result.inv["o"].op = "xor" /\ result.inv["o"].mask = 10
    /\ ApplyInv(result.inv["o"], 12, 4) = 6

\* the get_inv results of a returned module, over both legs of a differential one
InvResults(m) ==
    IF m.kind = "diff"
    THEN {m.p.inv[r] : r \in DOMAIN m.p.inv} \cup {m.n.inv[r] : r \in DOMAIN m.n.inv}
    ELSE {m.inv[r] : r \in DOMAIN m.inv}

Registered == buffer.kind \in {"FFBuffer", "DDRBuffer"}

\* C11 as stated: every successfully lowered SingleRegistered or DoubleDataRate
\* buffer inverts with one SB_LUT4 per bit and never on the bus net.
C11_RegisteredUsesLut ==
    (result.status = "ok" /\ Registered) =>
        \A inv \in InvResults(result) : inv.kind = "lut" /\ Len(inv.init) = Width

\* C11 amended: every successfully lowered SingleRegistered or DoubleDataRate
\* buffer inverts on the bus net (pass-through, whole-bus NOT or XOR with the
\* mask) and emits no SB_LUT4, on every port topology and direction.
C11_RegisteredUsesNet ==
    (result.status = "ok" /\ Registered) =>
        /\ InvResults(result) # {}
        /\ \A inv \in InvResults(result) :
               /\ inv.kind = "comb"
               /\ inv.init = <<>>
               /\ inv.op \in {"eq", "not", "xor"}

C11_Witness ==
    /\ result.status = "ok" /\ buffer.kind = "FFBuffer"
    /\ buffer.port.kind = "Differential" /\ buffer.direction = "Output"
    /\ buffer.port.invert = <<TRUE, FALSE>>
    /\ result.p.inv["o"].kind = "comb" /\ result.p.inv["o"].op = "xor"
    /\ result.n.inv["o"].mask = 2

\* a pin marked GLOBAL whose bit is inverted, or any pin marked GLOBAL on a
\* registered buffer, with a direction other than Output
GlobalViolation ==
    /\ buffer.direction # "Output"
    /\ \E b \in 1..Width : buffer.port.glob[b] /\ (buffer.port.invert[b] \/ Registered)

\* the same buffer on pins without the GLOBAL marker
Unmarked == [buffer EXCEPT !.port.glob = [b \in 1..Width |-> FALSE]]

GlobalViolationClass ==
    get_io_buffer([kind |-> "Buffer", direction |-> "Input",
                   port |-> [kind |-> "SingleEnded", width |-> 1,
                             invert |-> <<TRUE>>, glob |-> <<TRUE>>]]).status
UnknownKindClass ==
    get_io_buffer([kind |-> "Other", direction |-> "Input",
                   port |-> [kind |-> "SingleEnded", width |-> 1,
                             invert |-> <<FALSE>>, glob |-> <<FALSE>>]]).status

DiffBidir ==
    /\ Lowered /\ buffer.kind \in BufferKinds
    /\ buffer.port.kind = "Differential" /\ buffer.direction = "Bidir"

\* C13 as stated: a differential Bidir buffer fails, for every mode, with the
\* error class of the global-input violations, which is not the TypeError class
\* of unrecognized kinds, and no primitive of either leg is emitted.
C13_DiffBidirUnsupportedClass ==
    DiffBidir =>
        /\ result.status = GlobalViolationClass
        /\ result.status # UnknownKindClass
        /\ DOMAIN result = {"status", "msg"}

\* C13 amended: a differential Bidir buffer fails, for every mode, with a
\* TypeError, the class also raised for unrecognized buffer or port kinds and not
\* the ValueError of the global-input violations; no primitive is emitted.
C13_DiffBidirTypeError ==
    DiffBidir =>
        /\ result.status = "TypeError"
        /\ result.status = UnknownKindClass
        /\ result.status # GlobalViolationClass
        /\ result.msg = "iCE40 does not support bidirectional differential ports"
        /\ DOMAIN result = {"status", "msg"}

C13_Witness ==
    /\ DiffBidir /\ buffer.kind = "DDRBuffer" /\ Width = 2
    /\ buffer.port.glob = <<TRUE, FALSE>>
    /\ result.status = "TypeError"

(***************************************************************************)
(* The stabilization delay                                                 *)
(***************************************************************************)
\* the frequency (Hz) of the selected source: 48 MHz / 2^e, 10 kHz or as declared
SourceHz ==
    CASE default_clk = "SB_HFOSC" -> <<48000000, 24000000, 12000000, 6000000>>[hfosc_div.val + 1]
      [] default_clk = "SB_LFOSC" -> 10000
      [] OTHER -> frequency

Internal == default_clk \in {"SB_HFOSC", "SB_LFOSC"}

\* d = ceil(100 us x f) and d = ceil(15 us x f), without the division
CeilOf100us(d, f) == (d - 1) * 10000 < f /\ f <= d * 10000
CeilOf15us(d, f) == (d - 1) * 1000000 < 15 * f /\ 15 * f <= d * 1000000

\* d = floor(100 us x f) and d = floor(15 us x f), without the division
FloorOf100us(d, f) == d * 10000 <= f /\ f < (d + 1) * 10000
FloorOf15us(d, f) == d * 1000000 <= 15 * f /\ 15 * f < (d + 1) * 1000000

HfoscDelays == <<4800, 2400, 1200, 600>>

\* C14 as stated: the delay is ceil(100 us x f) for the internal oscillators
\* (4800, 2400, 1200, 600 for e = 0..3) and ceil(15 us x f) for an external clock
\* of any declared frequency f.
C14_DelayIsCeiling ==
    Built =>
        /\ Internal => CeilOf100us(delay, SourceHz)
        /\ default_clk = "SB_HFOSC" => delay = HfoscDelays[hfosc_div.val + 1]
        /\ ~Internal => CeilOf15us(delay, SourceHz)

\* C14 amended: the delay is the product truncated to an integer: floor(100 us x f)
\* for the internal oscillators (4800, 2400, 1200, 600 for e = 0..3, 1 for the
\* slow oscillator) and floor(15 us x f) for an external clock, which is
\* ceil(15 us x f) only when 15 us x f is an integer.
C14_DelayIsTruncated ==
    Built =>
        /\ Internal => FloorOf100us(delay, SourceHz)
        /\ default_clk = "SB_HFOSC" => delay = HfoscDelays[hfosc_div.val + 1]
        /\ default_clk = "SB_LFOSC" => delay = 1
        /\ ~Internal =>
               /\ FloorOf15us(delay, SourceHz)
               /\ (CeilOf15us(delay, SourceHz) <=> (15 * SourceHz) % 1000000 = 0)

C14_Witness ==
    Built /\ default_clk = "clk" /\ frequency = 170000 /\ delay = 2

====
